---- MODULE Spec2Model ----
(***************************************************************************)
(* kdtree-index: an implicit, always-balanced k-d tree stored in a flat    *)
(* array (include/kdtree_index.hpp) and the bit helper it sizes its        *)
(* storage with (include/details/bitwise.hpp).                             *)
(*                                                                         *)
(* A container is modelled by its members: _capacity, the live region      *)
(* [_start, _finish) as its length `span`, _count, _full_state, and the    *)
(* two parallel buffers `vals` and `st`, functions over 0 .. _capacity-1.  *)
(* Iterators are slot indices relative to _start; end() is `span`.         *)
(*                                                                         *)
(* A state byte the program has not written holds Uninit, and a value slot  *)
(* it has not constructed, or whose value it has given up (a slot marked   *)
(* Invalid, every slot after _destroy), holds NoValue.  Neither is         *)
(* comparable with a State or a value, so TLC stops with an error if the   *)
(* code ever reads one: the model checks that no such read happens instead *)
(* of picking an outcome for it.  State bytes that _destroy leaves behind  *)
(* stay what they were.                                                    *)
(***************************************************************************)
EXTENDS Integers, Sequences, FiniteSets, Bags, TLC

\* ---------------------------------------------------------------- bounds
MaxIns   == 12   \* inserts into a container that was never cleared
MaxReuse == 3    \* inserts after a clear()
MaxKey   == 3    \* one-axis values are <<1>> .. <<MaxKey>>
MaxPts   == 3    \* two-axis values are Point(1) .. Point(MaxPts)
MaxHint  == 4    \* capacity hints given to the constructor: 0 .. MaxHint
MaxClear == 1    \* calls of clear()
MaxDistinct == 12     \* one-axis keys of the runs that insert no value twice
MaxDistinctPts == 10  \* two-axis points of those runs
MaxApiIns  == 7   \* inserts before a copy or move, in the runs with them
MaxApiHint == 2   \* the capacity hint of those runs, besides 0
MaxCopied  == 4   \* values in a container that is copied or moved from
MaxAfter   == 2   \* operations on either container after a copy or move
MaxErase   == 2   \* calls of erase
MaxShortIns == 4  \* inserts in the runs with erase or a list
MaxList    == 3   \* items of an initializer list
MaxBits    == 2   \* bits that differ from the all-zero or the all-one word
MaxApply   == 2   \* applications of ftz to one word
MaxLevels  == 6   \* levels of the implicit trees that are walked
MaxFill    == 8   \* inserts before the clear, in the runs with a twin
MaxBoth    == 6   \* inserts after it, into the container and its twin

\* ------------------------------------------------------- State (C2 cell)
Invalid == 0
Heads   == 1
Tails   == 2
Unsure  == 3

Uninit  == "uninit"   \* a State byte the program never wrote
NoValue == <<>>       \* a value_type object that is not alive

\* Bitwise operations on naturals, bit by bit.
RECURSIVE BitOr(_, _)
BitOr(a, b) ==
  IF a = 0 THEN b
  ELSE IF b = 0 THEN a
  ELSE (IF a % 2 = 1 \/ b % 2 = 1 THEN 1 ELSE 0) + 2 * BitOr(a \div 2, b \div 2)

RECURSIVE BitXor(_, _)
BitXor(a, b) ==
  IF a = 0 THEN b
  ELSE IF b = 0 THEN a
  ELSE (IF a % 2 # b % 2 THEN 1 ELSE 0) + 2 * BitXor(a \div 2, b \div 2)

\* u >> s
RECURSIVE Shr(_, _)
Shr(u, s) == IF s = 0 THEN u ELSE Shr(u \div 2, s - 1)

\* operator~ (State): s ^ 0x3
ComplementBug(s) == s
Complement(s) == BitXor(s, 3)

\* operator+ (State, State)
MergeBug(a, b) == a
Merge(a, b) == IF a = b THEN a ELSE Unsure

\* details::bitwise<std::size_t>::ftz, the shift-or cascade of the 8-byte
\* specialisation
ftzBug(u) ==
  LET u1 == BitOr(u, Shr(u, 1))
      u3 == BitOr(u1, Shr(u1, 4))
      u4 == BitOr(u3, Shr(u3, 8))
      u5 == BitOr(u4, Shr(u4, 16))
  IN  BitOr(u5, Shr(u5, 32))
ftz(u) ==
  LET u1 == BitOr(u, Shr(u, 1))
      u2 == BitOr(u1, Shr(u1, 2))
      u3 == BitOr(u2, Shr(u2, 4))
      u4 == BitOr(u3, Shr(u3, 8))
      u5 == BitOr(u4, Shr(u4, 16))
  IN  BitOr(u5, Shr(u5, 32))

\* An unsigned word of any width as the set of the positions of its one
\* bits, bit 0 the least significant: u >> s and u |= u >> s.
ShrBits(u, s) == { b - s : b \in { x \in u : x >= s } }
OrShr(u, s) == u \cup ShrBits(u, s)

\* details::bitwise<U, 2>::ftz
ftz2(u) == OrShr(OrShr(OrShr(OrShr(u, 1), 2), 4), 8)

\* details::bitwise<U, 4>::ftz
ftz4(u) == OrShr(OrShr(OrShr(OrShr(OrShr(u, 1), 2), 4), 8), 16)

\* details::bitwise<U, 8>::ftz
ftz8Bug(u) == OrShr(OrShr(OrShr(OrShr(OrShr(u, 1), 2), 4), 8), 16)
ftz8(u) == OrShr(OrShr(OrShr(OrShr(OrShr(OrShr(u, 1), 2), 4), 8), 16), 32)

\* bitwise<U>: the specialisation is chosen by sizeof(U)
bitwise_ftz(w, u) ==
  IF w = 16 THEN ftz2(u) ELSE IF w = 32 THEN ftz4(u) ELSE ftz8(u)

\* ------------------------------------------------------ geometry (C3)
incBug(d, K) == d
inc(d, K) == (d + 1) % K

leftBug(x, o) == x - 1
left(x, o)  == x - o
right(x, o) == x + o
root(x, d)  == x + (d \div 2)
root_offsetBug(d) == d \div 4
root_offset(d) == (d + 1) \div 4

\* The descent every function of the tree makes: from a node with its
\* offset to left(node, offset) and right(node, offset) with half the
\* offset, down to offset 0; the slots reached, in preorder.
RECURSIVE Descent(_, _)
Descent(node, offset) ==
  IF offset = 0 THEN <<node>>
  ELSE <<node>> \o Descent(left(node, offset), offset \div 2)
                \o Descent(right(node, offset), offset \div 2)

\* ------------------------------------------------------ index (C4)
\* ac_pod of the tests and benchmarks: a.a < b.a on axis 0, a.b < b.b on
\* axis 1, reached through select_compare.
select_compareBug(d, a, b) == b[d + 1] < a[d + 1]
select_compare(d, a, b) == a[d + 1] < b[d + 1]

\* ------------------------------------------------------ slots
\* The buffers an operation works on are a record t: vals and st, the
\* iterator `insert` that _single_insert returns, and `rot`, the largest
\* offset at which this insert rotated a value out of a full subtree with
\* _erase_when_full (0 when it did not).  `ties`, `calls` and `over` are
\* histories too: what the insert met on its way, written and never read
\* by the operations.
is_validBug(t, p) == TRUE
is_valid(t, p) == t.st[p] # Invalid
value(t, p)    == t.vals[p]

\* p->state() = s.  Marking a slot Invalid gives its value up.  Once
\* place_at has thrown (t.thrown), no later statement of the insert runs.
SetState(t, p, s) ==
  IF t.thrown THEN t
  ELSE IF s = Invalid
  THEN [t EXCEPT !.st[p] = s, !.vals[p] = NoValue]
  ELSE [t EXCEPT !.st[p] = s]

\* std::memcpy(dst->value_ptr(), src->value_ptr(), sizeof(value_type))
memcpyBug(t, dst, src) == t
memcpy(t, dst, src) == [t EXCEPT !.vals[dst] = t.vals[src]]

\* The deferred placements: _deferred_copy / _deferred_move carry the
\* caller's value, _deferred_memcpy the slot p it relocates from.
\* DeferThrows is a _deferred_copy / _deferred_move of a value whose copy
\* or move constructor throws: place_at leaves through the exception with
\* nothing constructed at x, the slot it targeted.
DeferCopy(v)   == [kind |-> "copy",   p |-> v]
DeferMemcpy(x) == [kind |-> "memcpy", p |-> x]
DeferThrows(v) == [kind |-> "throws", p |-> v]
cref(t, defer) == IF defer.kind = "memcpy" THEN t.vals[defer.p] ELSE defer.p
place_at(t, defer, x) ==
  IF defer.kind = "throws"
  THEN [t EXCEPT !.thrown = TRUE, !.target = x]
  ELSE [t EXCEPT !.vals[x] = cref(t, defer)]

\* ------------------------------------------------------ min / max (C5)
\* `if (node_dim == fixed_dim) { return best; }`: the far side of a node
\* that splits on the searched axis is not visited.
prunedBug(node_dim, fixed_dim) == TRUE
pruned(node_dim, fixed_dim) == node_dim = fixed_dim

\* `if (!select_compare(fixed_dim, best, child)) best = child;`
min_betterBug(fixed_dim, t, best, child) ==
  IF select_compare(fixed_dim, value(t, child), value(t, best))
  THEN child ELSE best
min_better(fixed_dim, t, best, child) ==
  IF ~select_compare(fixed_dim, value(t, best), value(t, child))
  THEN child ELSE best

\* `if (!select_compare(fixed_dim, child, best)) best = child;`
max_better(fixed_dim, t, best, child) ==
  IF ~select_compare(fixed_dim, value(t, child), value(t, best))
  THEN child ELSE best

RECURSIVE minimum(_, _, _, _, _, _)
RECURSIVE minimum_loop(_, _, _, _, _, _, _)

\* The while / if of minimum, from a (node_dim, node_offset, node, best).
minimum_loop(t, K, fixed_dim, node_dim, node_offset, node, best) ==
  IF node_offset > 1 THEN
    LET child_dim    == inc(node_dim, K)
        child_offset == node_offset \div 2
        child1 == minimum(t, K, fixed_dim, child_dim, child_offset,
                          left(node, node_offset))
        best1  == min_better(fixed_dim, t, best, child1)
        child2 == right(node, node_offset)
        best2  == min_better(fixed_dim, t, best1, child2)
    IN  IF pruned(node_dim, fixed_dim) THEN best1
        ELSE minimum_loop(t, K, fixed_dim, child_dim, child_offset,
                          child2, best2)
  ELSE IF node_offset = 1 THEN
    LET child1 == left(node, node_offset)
        best1  == IF is_valid(t, child1)
                  THEN min_better(fixed_dim, t, best, child1) ELSE best
        child2 == right(node, node_offset)
    IN  IF is_valid(t, child2)
        THEN min_better(fixed_dim, t, best1, child2) ELSE best1
  ELSE best

minimum(t, K, fixed_dim, node_dim, node_offset, node) ==
  minimum_loop(t, K, fixed_dim, node_dim, node_offset, node, node)

RECURSIVE maximum(_, _, _, _, _, _)
RECURSIVE maximum_loop(_, _, _, _, _, _, _)

maximum_loop(t, K, fixed_dim, node_dim, node_offset, node, best) ==
  IF node_offset > 1 THEN
    LET child_dim    == inc(node_dim, K)
        child_offset == node_offset \div 2
        child1 == maximum(t, K, fixed_dim, child_dim, child_offset,
                          right(node, node_offset))
        best1  == max_better(fixed_dim, t, best, child1)
        child2 == left(node, node_offset)
        best2  == max_better(fixed_dim, t, best1, child2)
    IN  IF pruned(node_dim, fixed_dim) THEN best1
        ELSE maximum_loop(t, K, fixed_dim, child_dim, child_offset,
                          child2, best2)
  ELSE IF node_offset = 1 THEN
    LET child1 == left(node, node_offset)
        best1  == IF is_valid(t, child1)
                  THEN max_better(fixed_dim, t, best, child1) ELSE best
        child2 == right(node, node_offset)
    IN  IF is_valid(t, child2)
        THEN max_better(fixed_dim, t, best1, child2) ELSE best1
  ELSE best

maximum(t, K, fixed_dim, node_dim, node_offset, node) ==
  maximum_loop(t, K, fixed_dim, node_dim, node_offset, node, node)

\* ------------------------------------------------------ rotating insert (C7)
RECURSIVE _erase_when_full(_, _, _, _, _, _)
_erase_when_fullBug(t, K, node_dim, node_offset, node, erased) ==
  SetState(t, erased, Invalid)
_erase_when_full(t, K, node_dim, node_offset, node, erased) ==
  IF node_offset > 1 THEN
    LET child_dim    == inc(node_dim, K)
        child_offset == node_offset \div 2
        lnode == left(node, node_offset)
        rnode == right(node, node_offset)
        t1 == IF node = erased THEN
                LET tmp == minimum(t, K, node_dim, child_dim, child_offset,
                                   rnode)
                IN  _erase_when_full(memcpy(t, erased, tmp), K, child_dim,
                                     child_offset, rnode, tmp)
              ELSE IF node < erased THEN
                _erase_when_full(t, K, child_dim, child_offset, rnode, erased)
              ELSE
                _erase_when_full(t, K, child_dim, child_offset, lnode, erased)
    IN  SetState(t1, node, Unsure)
  ELSE IF node_offset = 1 THEN
    LET rnode == right(node, node_offset)
        t1 == IF node = erased
              THEN SetState(memcpy(t, node, rnode), rnode, Invalid)
              ELSE SetState(t, erased, Invalid)
    IN  SetState(t1, node, Unsure)
  ELSE SetState(t, node, Invalid)

\* `x->state() == _impl._full_state`
is_full(t, full_state, x) == t.st[x] = full_state

\* `insert = x; ... return insert;`
PlacedBug(t, x) == t
Placed(t, x) == [t EXCEPT !.insert = x]

\* History: a rotation through _erase_when_full at a node of this offset.
Rotated(t, offset) ==
  [t EXCEPT !.rot = IF offset > @ THEN offset ELSE @]

\* The slots of the subtree of a node at this offset.
Under(node, offset) ==
  IF offset = 0 THEN {node}
  ELSE (node - (2 * offset) + 1) .. (node + (2 * offset) - 1)
HasInvalid(t, node, offset) ==
  \E p \in Under(node, offset) : t.st[p] = Invalid

\* History: _single_insert is called on `node` at this offset, with the
\* state byte found there and whether a slot of its subtree (of an inner
\* node) is Invalid.  `how` is "root" for the call of insert, "push" for
\* the call that pushes the node's value into the other subtree with
\* _deferred_memcpy, "back" for the call that follows _erase_when_full,
\* and "down" for the others.
Called(t, node, offset, how) ==
  [t EXCEPT !.calls = @ \cup
     {[node |-> node, offset |-> offset, how |-> how, st |-> t.st[node],
       room |-> offset > 0 /\ HasInvalid(t, node, offset)]}]

\* History: the offset == 1 branch is about to memcpy the node's value
\* into the leaf dst.
Over(t, dst) ==
  [t EXCEPT !.over = @ \cup {[dst |-> dst, live |-> is_valid(t, dst)]}]

\* _single_insert, offset == 1: a node and its two leaves.
_single_insert_1(t, full_state, node_dim, offset, node, defer) ==
  LET lnode == left(node, offset)
      rnode == right(node, offset)
  IN
  IF select_compare(node_dim, cref(t, defer), value(t, node)) THEN
    IF is_valid(t, lnode) THEN
      LET t1 == SetState(SetState(memcpy(Over(t, rnode), rnode, node), rnode,
                                  full_state),
                         node, full_state)
      IN  IF select_compare(node_dim, cref(t1, defer), value(t1, lnode))
          THEN Placed(place_at(memcpy(t1, node, lnode), defer, lnode), lnode)
          ELSE Placed(place_at(t1, defer, node), node)
    ELSE
      LET t1 == SetState(place_at(t, defer, lnode), lnode, full_state)
          t2 == IF is_valid(t1, rnode) THEN SetState(t1, node, full_state)
                ELSE t1
      IN  Placed(t2, lnode)
  ELSE
    IF is_valid(t, rnode) THEN
      LET t1 == SetState(SetState(memcpy(Over(t, lnode), lnode, node), lnode,
                                  full_state),
                         node, full_state)
      IN  IF select_compare(node_dim, value(t1, rnode), cref(t1, defer))
          THEN Placed(place_at(memcpy(t1, node, rnode), defer, rnode), rnode)
          ELSE Placed(place_at(t1, defer, node), node)
    ELSE
      LET t1 == SetState(place_at(t, defer, rnode), rnode, full_state)
          t2 == IF is_valid(t1, lnode) THEN SetState(t1, node, full_state)
                ELSE t1
      IN  Placed(t2, rnode)

\* The equal-on-node_dim branch of _single_insert, offset > 1: TRUE when
\* the value goes to the right subtree.
equal_goes_rightBug(t, full_state, lnode) == TRUE
equal_goes_right(t, full_state, lnode) == is_full(t, full_state, lnode)

\* History: the equal-on-node_dim branch was taken at `node`, with the
\* two children full or not, and the value went right or left; `own`
\* tells the caller's value from one relocated by a rotation.
Tied(t, full_state, node, offset, defer, went_right) ==
  [t EXCEPT !.ties = @ \cup
     {[node |-> node, offset |-> offset, own |-> defer.kind # "memcpy",
       lfull |-> is_full(t, full_state, left(node, offset)),
       rfull |-> is_full(t, full_state, right(node, offset)),
       right |-> went_right]}]

RECURSIVE _single_insert(_, _, _, _, _, _, _)
_single_insert(t, K, full_state, node_dim, offset, node, defer) ==
  IF offset = 1 THEN
    _single_insert_1(t, full_state, node_dim, offset, node, defer)
  ELSE IF offset > 1 THEN
    LET child_dim    == inc(node_dim, K)
        child_offset == offset \div 2
        lnode == left(node, offset)
        rnode == right(node, offset)
        r ==
          IF select_compare(node_dim, cref(t, defer), value(t, node)) THEN
            IF is_full(t, full_state, lnode) THEN
              LET t1  == _single_insert(
                           Called(t, rnode, child_offset, "push"),
                           K, full_state, child_dim, child_offset, rnode,
                           DeferMemcpy(node))
                  tmp == maximum(t1, K, node_dim, child_dim, child_offset,
                                 lnode)
              IN  IF select_compare(node_dim, cref(t1, defer),
                                    value(t1, tmp))
                  THEN _single_insert(
                         Called(
                           Rotated(_erase_when_full(memcpy(t1, node, tmp), K,
                                     child_dim, child_offset, lnode, tmp),
                                   offset),
                           lnode, child_offset, "back"),
                         K, full_state, child_dim, child_offset, lnode, defer)
                  ELSE Placed(place_at(t1, defer, node), node)
            ELSE _single_insert(Called(t, lnode, child_offset, "down"),
                                K, full_state, child_dim, child_offset,
                                lnode, defer)
          ELSE IF select_compare(node_dim, value(t, node), cref(t, defer)) THEN
            IF is_full(t, full_state, rnode) THEN
              LET t1  == _single_insert(
                           Called(t, lnode, child_offset, "push"),
                           K, full_state, child_dim, child_offset, lnode,
                           DeferMemcpy(node))
                  tmp == minimum(t1, K, node_dim, child_dim, child_offset,
                                 rnode)
              IN  IF select_compare(node_dim, value(t1, tmp),
                                    cref(t1, defer))
                  THEN _single_insert(
                         Called(
                           Rotated(_erase_when_full(memcpy(t1, node, tmp), K,
                                     child_dim, child_offset, rnode, tmp),
                                   offset),
                           rnode, child_offset, "back"),
                         K, full_state, child_dim, child_offset, rnode, defer)
                  ELSE Placed(place_at(t1, defer, node), node)
            ELSE _single_insert(Called(t, rnode, child_offset, "down"),
                                K, full_state, child_dim, child_offset,
                                rnode, defer)
          ELSE
            IF equal_goes_right(t, full_state, lnode)
            THEN _single_insert(
                   Called(Tied(t, full_state, node, offset, defer, TRUE),
                          rnode, child_offset, "down"),
                   K, full_state, child_dim, child_offset, rnode, defer)
            ELSE _single_insert(
                   Called(Tied(t, full_state, node, offset, defer, FALSE),
                          lnode, child_offset, "down"),
                   K, full_state, child_dim, child_offset, lnode, defer)
    IN  SetState(r, node, Merge(r.st[lnode], r.st[rnode]))
  ELSE
    Placed(SetState(place_at(t, defer, node), node, full_state), node)

\* ------------------------------------------------------ find
\* The two loops of _find over the axes other than node_dim: TRUE when a
\* and b are equal on each of them.
other_axes_equalBug(K, node_dim, a, b) ==
  \A i \in 0 .. (node_dim - 1) :
     ~(select_compare(i, a, b) \/ select_compare(i, b, a))
other_axes_equal(K, node_dim, a, b) ==
  /\ \A i \in 0 .. (node_dim - 1) :
        ~(select_compare(i, a, b) \/ select_compare(i, b, a))
  /\ \A i \in (node_dim + 1) .. (K - 1) :
        ~(select_compare(i, a, b) \/ select_compare(i, b, a))

\* `if (!right_only)`: the left subtree is probed unless the node is
\* strictly less than val.
probes_leftBug(left_only, right_only) == left_only
probes_left(left_only, right_only) == ~right_only

RECURSIVE _find(_, _, _, _, _, _, _)
_find(t, K, finish, node_dim, node_offset, node, val) ==
  IF ~is_valid(t, node) THEN finish
  ELSE
    LET left_only  == select_compare(node_dim, val, value(t, node))
        right_only == select_compare(node_dim, value(t, node), val)
    IN
    IF /\ ~left_only
       /\ ~right_only
       /\ other_axes_equal(K, node_dim, value(t, node), val)
    THEN node
    ELSE IF node_offset # 0 THEN
      LET child_dim    == inc(node_dim, K)
          child_offset == node_offset \div 2
          probe == _find(t, K, finish, child_dim, child_offset,
                         left(node, node_offset), val)
      IN  IF probes_left(left_only, right_only) /\ probe # finish THEN probe
          ELSE IF left_only THEN finish
          ELSE _find(t, K, finish, child_dim, child_offset,
                     right(node, node_offset), val)
    ELSE finish

\* ------------------------------------------------------ container (C6)
\* A container c is the record of its members.
FreshBuffers(n) ==
  [vals |-> [i \in 0 .. (n - 1) |-> NoValue],
   st   |-> [i \in 0 .. (n - 1) |-> Uninit],
   thrown |-> FALSE]

\* The buffers of c as an operation starts on them.
BuffersOf(c) ==
  [vals |-> c.vals, st |-> c.st, insert |-> c.finish, rot |-> 0,
   thrown |-> FALSE, target |-> c.finish, ties |-> {},
   calls |-> {}, over |-> {}]

\* _kdtree_members(): no storage, _full_state(State::Heads)
_kdtree_members ==
  [capacity |-> 0, finish |-> 0, count |-> 0, full_state |-> Heads,
   vals |-> <<>>, st |-> <<>>]

_alloc_storage(c, n) ==
  IF n = 0 THEN c
  ELSE LET m == ftz(n)
           b == FreshBuffers(m)
       IN  [c EXCEPT !.capacity = m, !.finish = 0,
                     !.vals = b.vals, !.st = b.st]

\* The loop of _expand: `last` and `slow` walk right to left; the old slots
\* are read from `from`, which is the written buffer itself when the
\* expansion is in place.
RECURSIVE expand_forward(_, _, _, _, _)
expand_forward(from, to, inplace, i, n) ==
  IF i = n THEN to
  ELSE
    LET src == IF inplace THEN to ELSE from
        t1  == [to EXCEPT !.st[(2 * i) + 1]   = src.st[i],
                          !.vals[(2 * i) + 1] = src.vals[i]]
    IN  expand_forward(from, SetState(t1, 2 * i, Invalid), inplace, i + 1, n)

RECURSIVE expand_loop(_, _, _, _, _)
expand_loopBug(from, to, inplace, last, slow) ==
  expand_forward(from, to, inplace, 0, slow)
expand_loop(from, to, inplace, last, slow) ==
  IF last = 0 THEN to
  ELSE
    LET src == IF inplace THEN to ELSE from
        t1  == [to EXCEPT !.st[last - 1]   = src.st[slow - 1],
                          !.vals[last - 1] = src.vals[slow - 1]]
    IN  expand_loop(from, SetState(t1, last - 2, Invalid), inplace,
                    last - 2, slow - 1)

\* _expand(vp, cp): `to` is the buffer pair (vp, cp) points to.
_expand(c, to, inplace) ==
  LET offset == c.finish * 2
      from   == [vals |-> c.vals, st |-> c.st, thrown |-> FALSE]
      b      == expand_loop(from, SetState(to, offset, Invalid), inplace,
                            offset, c.finish)
  IN  [c EXCEPT !.vals = b.vals, !.st = b.st, !.finish = offset + 1]

new_capacityBug(capacity) == (capacity * 2) + 2
new_capacity(capacity) == (capacity * 2) + 1

_expand_allocBug(c) ==
  _expand(c, FreshBuffers(new_capacity(c.capacity)), FALSE)
_expand_alloc(c) ==
  LET n == new_capacity(c.capacity)
  IN  [_expand(c, FreshBuffers(n), FALSE) EXCEPT !.capacity = n]

_prepare_insertBug(c) ==
  IF c.count = 0 THEN
    [(IF c.capacity = 0 THEN _alloc_storage(c, 1) ELSE c) EXCEPT !.finish = 1]
  ELSE IF c.count = c.capacity THEN
    [_expand_alloc(c) EXCEPT !.full_state = Complement(c.full_state)]
  ELSE c
_prepare_insert(c) ==
  IF c.count = 0 THEN
    [(IF c.capacity = 0 THEN _alloc_storage(c, 1) ELSE c) EXCEPT !.finish = 1]
  ELSE IF c.count = c.finish THEN
    LET e == IF c.count = c.capacity
             THEN _expand_alloc(c)
             ELSE _expand(c, [vals |-> c.vals, st |-> c.st,
                              thrown |-> FALSE], TRUE)
    IN  [e EXCEPT !.full_state = Complement(c.full_state)]
  ELSE c

\* kdtree::insert(const value_type&) and insert(value_type&&) with the
\* deferred placement they build: the container afterwards, with the
\* returned iterator in field `insert`, or, when place_at threw, with
\* `thrown` and the slot it targeted.  ++_count comes before _single_insert.
\* Outcome is the container p that _prepare_insert left, after ++_count
\* and with the buffers r that _single_insert returns.
Outcome(p, r) ==
  [capacity |-> p.capacity, finish |-> p.finish, count |-> p.count + 1,
   full_state |-> p.full_state, vals |-> r.vals, st |-> r.st,
   insert |-> r.insert, rot |-> r.rot,
   thrown |-> r.thrown, target |-> r.target, ties |-> r.ties,
   calls |-> r.calls, over |-> r.over]
insert_placing(c, K, defer) ==
  LET p    == _prepare_insert(c)
      dist == p.finish
  IN  Outcome(p, _single_insert(
                   Called(BuffersOf(p), root(0, dist), root_offset(dist),
                          "root"),
                   K, p.full_state, 0, root_offset(dist), root(0, dist),
                   defer))

insert(c, K, v) == insert_placing(c, K, DeferCopy(v))

\* The same calls with an allocator that throws: failing = "value" when
\* value_alloc_traits::allocate throws, "state" when the value buffer is
\* obtained and state_alloc_traits::allocate throws.  Each gives the
\* container as the exception leaves it and `leaked`, the buffers obtained
\* in the call and neither released nor owned by the container.
_alloc_storage_failsBug(c, n, failing) ==
  [thrown |-> n # 0, c |-> c, leaked |-> IF failing = "state" THEN 1 ELSE 0]
_alloc_storage_fails(c, n, failing) ==
  IF n = 0 THEN [thrown |-> FALSE, c |-> c, leaked |-> 0]
  ELSE IF failing = "value" THEN [thrown |-> TRUE, c |-> c, leaked |-> 0]
  ELSE LET obtained == 1      \* v = allocate(value alloc, n)
           released == 1      \* catch (...) { deallocate(v, n); throw; }
       IN  [thrown |-> TRUE, c |-> c, leaked |-> obtained - released]

_expand_alloc_fails(c, failing) ==
  IF failing = "value" THEN [thrown |-> TRUE, c |-> c, leaked |-> 0]
  ELSE LET obtained == 1      \* vp = allocate(value alloc, n)
           released == 1      \* catch (...) { deallocate(vp, n); throw; }
       IN  [thrown |-> TRUE, c |-> c, leaked |-> obtained - released]

_prepare_insert_fails(c, failing) ==
  IF c.count = 0 THEN
    IF c.capacity = 0
    THEN _alloc_storage_fails(c, 1, failing)
    ELSE [thrown |-> FALSE, c |-> _prepare_insert(c), leaked |-> 0]
  ELSE IF c.count = c.finish /\ c.count = c.capacity
  THEN _expand_alloc_fails(c, failing)
  ELSE [thrown |-> FALSE, c |-> _prepare_insert(c), leaked |-> 0]

\* insert with that allocator: _prepare_insert is its first statement, so
\* the exception leaves before ++_count.
insert_fails(c, failing) == _prepare_insert_fails(c, failing)

\* _destroy(): every live value is destroyed and the region emptied.  No
\* value object is alive afterwards; the state bytes are not touched and
\* stay in the buffer as they were.
_destroyBug(c) ==
  LET b == FreshBuffers(c.capacity)
  IN  [c EXCEPT !.finish = 0, !.vals = b.vals]
_destroy(c) ==
  LET b == FreshBuffers(c.capacity)
  IN  [c EXCEPT !.finish = 0, !.count = 0, !.vals = b.vals]

clearBug(c) == IF c.count # 0 THEN _kdtree_members ELSE c
clear(c) == IF c.count # 0 THEN _destroy(c) ELSE c

\* _uninitialized_insert(first, last): the body is empty.
_uninitialized_insert(c, l) == c

\* kdtree(std::initializer_list<value_type> l, i, a): kdtree(i, a), then
\* _alloc_storage(l.size()) and _uninitialized_insert(l.begin(), l.end()).
list_construct(l) ==
  _uninitialized_insert(_alloc_storage(_kdtree_members, Len(l)), l)

\* kdtree::erase(const value_type&) and erase(iterator): --_impl._count
\* and nothing else; the first returns 0.  _count is a std::size_t: a
\* negative count here is that number modulo 2^64, so that -1 is
\* 2^64 - 1, and + 1, - 1 and equality are those of the word.
erase(c, val) == [c EXCEPT !.count = @ - 1]
erase_at(c, it) == [c EXCEPT !.count = @ - 1]

begin(c) == 0
end(c)   == c.finish
size(c)  == c.count
empty(c) == size(c) = 0

\* kdtree::find: the iterator returned, c.finish for end().
find(c, K, val) ==
  LET dist == c.finish
  IN  IF c.count = 0 THEN c.finish
      ELSE _find(BuffersOf(c), K, c.finish, 0,
                 root_offset(dist), root(0, dist), val)

\* A container with the address its _start points to.  Addresses are
\* names: "null" for the default iterator, and one name per allocation.
At(c, a) ==
  [start |-> a, capacity |-> c.capacity, finish |-> c.finish,
   count |-> c.count, full_state |-> c.full_state,
   vals |-> c.vals, st |-> c.st]

\* _kdtree_members(const _kdtree_members& x): no storage, x._full_state
_kdtree_members_copy(x) ==
  [_kdtree_members EXCEPT !.full_state = x.full_state]

\* kdtree(const kdtree& x): storage of x's capacity from the allocator,
\* std::uninitialized_copy over the value slots of [x._start, x._finish),
\* whether they are alive or not (what is copied from a slot that is not
\* alive is as indeterminate as that slot), memcpy of the `dist` state
\* bytes, then _finish, _count and _full_state.
copyBug(x) == x
copy(x) ==
  LET a    == _alloc_storage(_kdtree_members_copy(x), x.capacity)
      dist == x.finish
      c    == [a EXCEPT !.finish = dist, !.count = x.count,
                        !.full_state = x.full_state,
                        !.vals = [i \in DOMAIN a.vals |->
                                   IF i < dist THEN x.vals[i] ELSE a.vals[i]],
                        !.st = [i \in DOMAIN a.st |->
                                 IF i < dist THEN x.st[i] ELSE a.st[i]]]
  IN  At(IF x.capacity = 0 THEN a ELSE c,
         IF x.capacity = 0 THEN "null" ELSE "copied")

\* The slots of x whose value the std::uninitialized_copy of the copy
\* constructor reads to copy-construct from: all of [x._start, x._finish).
copy_reads(x) == 0 .. (x.finish - 1)

\* kdtree(kdtree&& x), _kdtree_members(_kdtree_members&& x): the new
\* members start as the default ones and are swapped with x's, field by
\* field.
moveBug(x) == [dst |-> x, src |-> x]
move(x) == [dst |-> x, src |-> At(_kdtree_members, "null")]

\* ------------------------------------------------------ state machine
VARIABLES
  kth,          \* Indexable::kth(), the number of axes K
  capacity,     \* _impl._capacity
  finish,       \* _impl._finish - _impl._start
  count,        \* _impl._count
  full_state,   \* _impl._full_state
  vals,         \* the value buffer
  st,           \* the state buffer
  hint,         \* the n the container was constructed with
  inserted,     \* the values inserted since construction or the last clear
  clears,       \* the number of clear() calls so far
  rot,          \* history: the largest offset at which the last insert
                \* rotated through _erase_when_full (0: it did not)
  other,        \* a second container, made from this one by copy or move
  exc,          \* the exception the last operation left through, if any
  ret,          \* the iterator the last insert returned
  listed,       \* the initializer list the container was constructed from
  word,         \* an unsigned word given to details::bitwise<U>::ftz
  erases,       \* the number of erase calls so far
  walk          \* a descent of the implicit tree: where it is, how it came

vars == <<kth, capacity, finish, count, full_state, vals, st, hint,
          inserted, clears, rot, other, exc, ret, listed, word, erases, walk>>

\* What the runs of one container with insert and clear leave aside.
aside == <<other, exc, ret, listed, word, erases, walk>>
NoOther == [made |-> "no"]
NoExc   == [kind |-> "none"]
NoRet   == [it |-> -1]
NoWord  == [w |-> 0]
NoWalk  == [span |-> 0]
AsideInit ==
  /\ other = NoOther
  /\ exc = NoExc
  /\ ret = NoRet
  /\ listed = << >>
  /\ word = NoWord
  /\ erases = 0
  /\ walk = NoWalk

Self == [capacity |-> capacity, finish |-> finish, count |-> count,
         full_state |-> full_state, vals |-> vals, st |-> st]

\* The values offered to insert and find.  The two-axis points walk a
\* g x g grid along its diagonals, so that neighbours in the walk differ on
\* both axes and later points share one coordinate with earlier ones; for
\* g = 2: (1,1) (2,2) (1,2) (2,1), and for g = 4: (1,1) (2,2) (3,3) (4,4)
\* (1,2) (2,3) (3,4) (4,1) (1,3) (2,4) ...
PointOn(g, i) ==
  << ((i - 1) % g) + 1, ((((i - 1) \div g) + (i - 1)) % g) + 1 >>
Point(i) == PointOn(2, i)

Values(K) ==
  IF K = 1 THEN { <<a>> : a \in 1 .. MaxKey }
  ELSE { Point(i) : i \in 1 .. MaxPts }

\* The hints offered to the constructor: all of 0 .. MaxHint for the
\* one-axis index (the tests), the largest for the two-axis index (the
\* benchmark constructs it with a hint).
Hints(K) == IF K = 1 THEN 0 .. MaxHint ELSE {MaxHint}

Becomes(c) ==
  /\ capacity' = c.capacity
  /\ finish' = c.finish
  /\ count' = c.count
  /\ full_state' = c.full_state
  /\ vals' = c.vals
  /\ st' = c.st

\* kdtree(), kdtree(std::size_t n): _impl() then _alloc_storage(n)
Init ==
  /\ kth \in {1, 2}
  /\ hint \in Hints(kth)
  /\ LET c == _alloc_storage(_kdtree_members, hint)
     IN  /\ capacity = c.capacity
         /\ finish = c.finish
         /\ count = c.count
         /\ full_state = c.full_state
         /\ vals = c.vals
         /\ st = c.st
  /\ inserted = EmptyBag
  /\ clears = 0
  /\ rot = 0
  /\ AsideInit

Insert ==
  /\ BagCardinality(inserted) < (IF clears = 0 THEN MaxIns ELSE MaxReuse)
  /\ \E v \in Values(kth) :
       LET r == insert(Self, kth, v)
       IN  /\ Becomes(r)
           /\ rot' = r.rot
           /\ inserted' = inserted (+) SetToBag({v})
  /\ UNCHANGED <<kth, hint, clears>>
  /\ UNCHANGED aside

Clear ==
  /\ clears < MaxClear
  /\ Becomes(clear(Self))
  /\ inserted' = EmptyBag
  /\ clears' = clears + 1
  /\ rot' = 0
  /\ UNCHANGED <<kth, hint>>
  /\ UNCHANGED aside

Next == Insert \/ Clear

Spec == Init /\ [][Next]_vars

\* A second specification: every value is inserted at most once, into a
\* default-constructed container.
WideValues(K) ==
  IF K = 1 THEN { <<a>> : a \in 1 .. MaxDistinct }
  ELSE { PointOn(4, i) : i \in 1 .. MaxDistinctPts }

InitDistinct ==
  /\ kth \in {1, 2}
  /\ hint = 0
  /\ capacity = _kdtree_members.capacity
  /\ finish = _kdtree_members.finish
  /\ count = _kdtree_members.count
  /\ full_state = _kdtree_members.full_state
  /\ vals = _kdtree_members.vals
  /\ st = _kdtree_members.st
  /\ inserted = EmptyBag
  /\ clears = 0
  /\ rot = 0
  /\ AsideInit

InsertDistinct ==
  /\ \E v \in WideValues(kth) \ BagToSet(inserted) :
       LET r == insert(Self, kth, v)
       IN  /\ Becomes(r)
           /\ rot' = r.rot
           /\ inserted' = inserted (+) SetToBag({v})
  /\ UNCHANGED <<kth, hint, clears>>
  /\ UNCHANGED aside

NextDistinct == InsertDistinct

SpecDistinct == InitDistinct /\ [][NextDistinct]_vars

\* A third specification: the public interface on two containers.  The
\* first is constructed with a hint, filled and cleared; a second one is
\* copy- or move-constructed from it, and then both are used.
ApiInit ==
  /\ kth \in {1, 2}
  /\ hint \in {0, MaxApiHint}
  /\ LET c == _alloc_storage(_kdtree_members, hint)
     IN  /\ capacity = c.capacity
         /\ finish = c.finish
         /\ count = c.count
         /\ full_state = c.full_state
         /\ vals = c.vals
         /\ st = c.st
  /\ inserted = EmptyBag
  /\ clears = 0
  /\ rot = 0
  /\ AsideInit

\* No operation is started on a container an exception has left behind.
Usable == exc.kind = "none"

\* The operations still allowed: MaxApiIns values before the second
\* container is made, MaxAfter operations after.
MayInsert ==
  IF other.made = "no" THEN BagCardinality(inserted) < MaxApiIns
  ELSE other.ops < MaxAfter
Counted(o) == IF o.made = "no" THEN o ELSE [o EXCEPT !.ops = @ + 1]

\* The second container as the variable `other` holds it: how it was
\* made, whether its _start is the first container's (`shares`), the
\* values inserted into it, the operations made since, and the slots of
\* the first container whose value its construction read.
Made(how, c, shared, bag, read) ==
  [made |-> how, shares |-> shared, capacity |-> c.capacity,
   finish |-> c.finish, count |-> c.count, full_state |-> c.full_state,
   vals |-> c.vals, st |-> c.st, inserted |-> bag, ops |-> 0,
   read |-> read]

\* What a write of one container does to the other: nothing, unless both
\* work on the same buffers.  Then the other sees the buffers as written,
\* or, when the writer released them for larger ones, is left with
\* released memory.
Freed(n) == FreshBuffers(n)
Through(shared, mine, before, after) ==
  IF ~shared THEN [vals |-> mine.vals, st |-> mine.st]
  ELSE IF after.capacity = before.capacity
  THEN [vals |-> after.vals, st |-> after.st]
  ELSE [vals |-> Freed(mine.capacity).vals, st |-> Freed(mine.capacity).st]

\* The other container after a write of this one.
Seen(o, before, after) ==
  IF o.made = "no" THEN o
  ELSE LET w == Through(o.shares, o, before, after)
       IN  [o EXCEPT !.vals = w.vals, !.st = w.st,
                     !.shares = @ /\ after.capacity = before.capacity]

ApiInsert ==
  /\ Usable
  /\ MayInsert
  /\ \E v \in Values(kth) : \E r \in {insert(Self, kth, v)} :
           /\ Becomes(r)
           /\ rot' = r.rot
           /\ ret' = [it |-> r.insert, v |-> v]
           /\ inserted' = inserted (+) SetToBag({v})
           /\ other' = Counted(Seen(other, Self, r))
  /\ UNCHANGED <<kth, hint, clears, exc, listed, word, erases, walk>>

ApiClear ==
  /\ Usable
  /\ IF other.made = "no" THEN clears < MaxClear ELSE other.ops < MaxAfter
  /\ \E r \in {clear(Self)} :
       /\ Becomes(r)
       /\ other' = Counted(Seen(other, Self, r))
  /\ inserted' = EmptyBag
  /\ clears' = clears + 1
  /\ rot' = 0
  /\ ret' = NoRet
  /\ UNCHANGED <<kth, hint, exc, listed, word, erases, walk>>

Copy ==
  /\ Usable
  /\ other.made = "no"
  /\ BagCardinality(inserted) <= MaxCopied
  /\ \E x \in {At(Self, IF capacity = 0 THEN "null" ELSE "first")} :
       \E r \in {copy(x)} :
         other' = Made("copy", r, r.start = x.start /\ r.start # "null",
                       inserted, copy_reads(x))
  /\ ret' = NoRet
  /\ UNCHANGED <<kth, capacity, finish, count, full_state, vals, st, hint,
                 inserted, clears, rot, exc, listed, word, erases, walk>>

Move ==
  /\ Usable
  /\ other.made = "no"
  /\ BagCardinality(inserted) <= MaxCopied
  /\ \E r \in {move(At(Self, IF capacity = 0 THEN "null" ELSE "first"))} :
         /\ other' = Made("move", r.dst,
                          r.dst.start = r.src.start /\ r.dst.start # "null",
                          inserted, {})
         /\ Becomes(r.src)
  /\ inserted' = EmptyBag
  /\ ret' = NoRet
  /\ rot' = 0
  /\ UNCHANGED <<kth, hint, clears, exc, listed, word, erases, walk>>

OtherInsert ==
  /\ Usable
  /\ other.made # "no"
  /\ other.ops < MaxAfter
  /\ \E v \in Values(kth) : \E r \in {insert(other, kth, v)} :
       \E w \in {Through(other.shares, Self, other, r)} :
           /\ other' = [other EXCEPT
                          !.capacity = r.capacity, !.finish = r.finish,
                          !.count = r.count, !.full_state = r.full_state,
                          !.vals = r.vals, !.st = r.st,
                          !.shares = @ /\ r.capacity = other.capacity,
                          !.inserted = @ (+) SetToBag({v}),
                          !.ops = @ + 1]
           /\ vals' = w.vals
           /\ st' = w.st
  /\ ret' = NoRet
  /\ UNCHANGED <<kth, capacity, finish, count, full_state, hint, inserted,
                 clears, rot, exc, listed, word, erases, walk>>

OtherClear ==
  /\ Usable
  /\ other.made # "no"
  /\ other.ops < MaxAfter
  /\ \E r \in {clear(other)} :
       \E w \in {Through(other.shares, Self, other, r)} :
         /\ other' = [r EXCEPT !.inserted = EmptyBag, !.ops = @ + 1]
         /\ vals' = w.vals
         /\ st' = w.st
  /\ ret' = NoRet
  /\ UNCHANGED <<kth, capacity, finish, count, full_state, hint, inserted,
                 clears, rot, exc, listed, word, erases, walk>>

\* insert of a value whose copy or move constructor throws.
InsertThrows ==
  /\ Usable
  /\ other.made = "no"
  /\ MayInsert
  /\ \E v \in Values(kth) :
       \E r \in {insert_placing(Self, kth, DeferThrows(v))} :
           /\ r.thrown
           /\ Becomes(r)
           /\ exc' = [kind |-> "value", target |-> r.target, v |-> v,
                      count |-> count]
  /\ ret' = NoRet
  /\ UNCHANGED <<kth, hint, inserted, clears, rot, other, listed, word, erases, walk>>

\* insert when one of the two allocations it needs throws.
InsertAllocFails ==
  /\ Usable
  /\ other.made = "no"
  /\ MayInsert
  /\ \E failing \in {"value", "state"} :
       \E r \in {insert_fails(Self, failing)} :
           /\ r.thrown
           /\ Becomes(r.c)
           /\ exc' = [kind |-> "alloc", failing |-> failing,
                      leaked |-> r.leaked]
  /\ ret' = NoRet
  /\ UNCHANGED <<kth, hint, inserted, clears, rot, other, listed, word, erases, walk>>

ApiNext ==
  \/ InsertThrows
  \/ InsertAllocFails
  \/ ApiInsert
  \/ ApiClear
  \/ Copy
  \/ Move
  \/ OtherInsert
  \/ OtherClear

SpecApi == ApiInit /\ [][ApiNext]_vars

\* A fourth specification: one container with insert, clear and the two
\* erase functions.  erase(iterator) is given iterators to live slots.
\* An insert that would write through the null _start of a container
\* without storage (capacity 0, count not 0) ends the process: it has no
\* successor.
ShortInsert ==
  /\ BagCardinality(inserted) < MaxShortIns
  /\ ~(capacity = 0 /\ count # 0)
  /\ \E v \in Values(kth) : \E r \in {insert(Self, kth, v)} :
       /\ Becomes(r)
       /\ rot' = r.rot
       /\ inserted' = inserted (+) SetToBag({v})
  /\ UNCHANGED <<kth, hint, clears>>
  /\ UNCHANGED aside

EraseValue ==
  /\ erases < MaxErase
  /\ \E v \in Values(kth) : Becomes(erase(Self, v))
  /\ erases' = erases + 1
  /\ UNCHANGED <<kth, hint, inserted, clears, rot, other, exc, ret, listed,
                 word, walk>>

EraseIterator ==
  /\ erases < MaxErase
  /\ \E it \in { p \in 0 .. (finish - 1) : is_valid(Self, p) } :
       Becomes(erase_at(Self, it))
  /\ erases' = erases + 1
  /\ UNCHANGED <<kth, hint, inserted, clears, rot, other, exc, ret, listed,
                 word, walk>>

EraseNext == ShortInsert \/ Clear \/ EraseValue \/ EraseIterator

SpecErase == ApiInit /\ [][EraseNext]_vars

\* A fifth specification: the container is constructed from an
\* initializer list and then used with insert and clear.
Lists(K) == UNION { [1 .. n -> Values(K)] : n \in 0 .. MaxList }

ListInit ==
  /\ kth \in {1, 2}
  /\ listed \in Lists(kth)
  /\ hint = Len(listed)
  /\ LET c == list_construct(listed)
     IN  /\ capacity = c.capacity
         /\ finish = c.finish
         /\ count = c.count
         /\ full_state = c.full_state
         /\ vals = c.vals
         /\ st = c.st
  /\ inserted = EmptyBag
  /\ clears = 0
  /\ rot = 0
  /\ other = NoOther
  /\ exc = NoExc
  /\ ret = NoRet
  /\ word = NoWord
  /\ erases = 0
  /\ walk = NoWalk

ListNext == ShortInsert \/ Clear

SpecList == ListInit /\ [][ListNext]_vars

\* A sixth specification: bitwise<U>::ftz applied, up to MaxApply times
\* in a row, to a word of 16, 32 or 64 bits.
Widths == {16, 32, 64}

RECURSIVE FewBits(_, _)
FewBits(w, n) ==
  IF n = 0 THEN { {} }
  ELSE LET P == FewBits(w, n - 1)
       IN  P \cup { q \cup {b} : q \in P, b \in 0 .. w - 1 }

Words(w) ==
  FewBits(w, MaxBits) \cup { (0 .. w - 1) \ q : q \in FewBits(w, MaxBits) }

FtzInit ==
  /\ kth = 1
  /\ hint = 0
  /\ capacity = _kdtree_members.capacity
  /\ finish = _kdtree_members.finish
  /\ count = _kdtree_members.count
  /\ full_state = _kdtree_members.full_state
  /\ vals = _kdtree_members.vals
  /\ st = _kdtree_members.st
  /\ inserted = EmptyBag
  /\ clears = 0
  /\ rot = 0
  /\ other = NoOther
  /\ exc = NoExc
  /\ ret = NoRet
  /\ listed = << >>
  /\ erases = 0
  /\ walk = NoWalk
  /\ \E w \in Widths : \E u \in Words(w) :
       word = [w |-> w, u0 |-> u, u |-> u, n |-> 0]

Ftz ==
  /\ word.n < MaxApply
  /\ word' = [word EXCEPT !.u = bitwise_ftz(word.w, word.u), !.n = @ + 1]
  /\ UNCHANGED <<kth, capacity, finish, count, full_state, vals, st, hint,
                 inserted, clears, rot, other, exc, ret, listed, erases, walk>>

SpecFtz == FtzInit /\ [][Ftz]_vars

\* A seventh specification: the runs of Spec, with what the last insert
\* did on its way kept in `ret`: the iterator returned, the span it worked
\* in, and the history of its _single_insert calls.
Went(r, v) ==
  [it |-> r.insert, v |-> v, span |-> r.finish, ties |-> r.ties,
   calls |-> r.calls, over |-> r.over]
TraceInsert ==
  /\ BagCardinality(inserted) < (IF clears = 0 THEN MaxIns ELSE MaxReuse)
  /\ \E v \in Values(kth) : \E r \in {insert(Self, kth, v)} :
       /\ Becomes(r)
       /\ rot' = r.rot
       /\ inserted' = inserted (+) SetToBag({v})
       /\ ret' = Went(r, v)
  /\ UNCHANGED <<kth, hint, clears, other, exc, listed, word, erases, walk>>

TraceClear ==
  /\ clears < MaxClear
  /\ Becomes(clear(Self))
  /\ inserted' = EmptyBag
  /\ clears' = clears + 1
  /\ rot' = 0
  /\ ret' = NoRet
  /\ UNCHANGED <<kth, hint, other, exc, listed, word, erases, walk>>

TraceNext == TraceInsert \/ TraceClear

SpecTrace == Init /\ [][TraceNext]_vars

\* An eighth specification: one descent of the implicit tree of a span
\* 2^k - 1, from root(0, span) with root_offset(span), a step to the left
\* or to the right child at a time.
WalkInit ==
  /\ kth = 1
  /\ hint = 0
  /\ capacity = _kdtree_members.capacity
  /\ finish = _kdtree_members.finish
  /\ count = _kdtree_members.count
  /\ full_state = _kdtree_members.full_state
  /\ vals = _kdtree_members.vals
  /\ st = _kdtree_members.st
  /\ inserted = EmptyBag
  /\ clears = 0
  /\ rot = 0
  /\ other = NoOther
  /\ exc = NoExc
  /\ ret = NoRet
  /\ listed = << >>
  /\ word = NoWord
  /\ erases = 0
  /\ \E k \in 1 .. MaxLevels :
       walk = [span |-> 2^k - 1, node |-> root(0, 2^k - 1),
               offset |-> root_offset(2^k - 1), above |-> << >>]

GoLeft ==
  /\ walk.offset # 0
  /\ walk' = [walk EXCEPT
                !.node = left(walk.node, walk.offset),
                !.offset = walk.offset \div 2,
                !.above = Append(@, [node |-> walk.node, went |-> "left"])]
  /\ UNCHANGED <<kth, capacity, finish, count, full_state, vals, st, hint,
                 inserted, clears, rot, other, exc, ret, listed, word, erases>>

GoRight ==
  /\ walk.offset # 0
  /\ walk' = [walk EXCEPT
                !.node = right(walk.node, walk.offset),
                !.offset = walk.offset \div 2,
                !.above = Append(@, [node |-> walk.node, went |-> "right"])]
  /\ UNCHANGED <<kth, capacity, finish, count, full_state, vals, st, hint,
                 inserted, clears, rot, other, exc, ret, listed, word, erases>>

WalkNext == GoLeft \/ GoRight

SpecWalk == WalkInit /\ [][WalkNext]_vars

\* A ninth specification: a container is filled and cleared, and from
\* then on every insert is also made into a twin, the container that
\* kdtree(capacity) constructs.  `other` holds the twin and the values the
\* container stored before the clear, `ret` the two iterators returned.
Twin(c, stored) ==
  [made |-> "fresh", capacity |-> c.capacity, finish |-> c.finish,
   count |-> c.count, full_state |-> c.full_state, vals |-> c.vals,
   st |-> c.st, before |-> stored]
TwinOf(o) ==
  [capacity |-> o.capacity, finish |-> o.finish, count |-> o.count,
   full_state |-> o.full_state, vals |-> o.vals, st |-> o.st]

Fill ==
  /\ clears = 0
  /\ BagCardinality(inserted) < MaxFill
  /\ \E v \in Values(kth) : \E r \in {insert(Self, kth, v)} :
       /\ Becomes(r)
       /\ rot' = r.rot
       /\ inserted' = inserted (+) SetToBag({v})
  /\ UNCHANGED <<kth, hint, clears>>
  /\ UNCHANGED aside

ClearWithTwin ==
  /\ clears = 0
  /\ \E c \in {clear(Self)} :
       /\ Becomes(c)
       /\ other' = Twin(_alloc_storage(_kdtree_members, capacity),
                        BagToSet(inserted))
  /\ inserted' = EmptyBag
  /\ clears' = clears + 1
  /\ rot' = 0
  /\ UNCHANGED <<kth, hint, exc, ret, listed, word, erases, walk>>

InsertBoth ==
  /\ clears = 1
  /\ BagCardinality(inserted) < MaxBoth
  /\ \E v \in Values(kth) :
       \E r \in {insert(Self, kth, v)} :
         \E q \in {insert(TwinOf(other), kth, v)} :
           /\ Becomes(r)
           /\ rot' = r.rot
           /\ inserted' = inserted (+) SetToBag({v})
           /\ other' = Twin(q, other.before)
           /\ ret' = [it |-> r.insert, twin |-> q.insert, v |-> v]
  /\ UNCHANGED <<kth, hint, clears, exc, listed, word, erases, walk>>

TwinNext == Fill \/ ClearWithTwin \/ InsertBoth

SpecTwin == Init /\ [][TwinNext]_vars

\* ------------------------------------------------------ what is checked
\* The implicit tree, read off the slot index alone: slot p is the root of
\* the subtree of the 2 * LowBit(p + 1) - 1 slots centred on it.
RECURSIVE LowBit(_)
LowBit(n) == IF n % 2 = 1 THEN 1 ELSE 2 * LowBit(n \div 2)

RECURSIVE Log2(_)
Log2(n) == IF n <= 1 THEN 0 ELSE 1 + Log2(n \div 2)

Slots       == 0 .. (finish - 1)
Live        == { p \in Slots : st[p] # Invalid }
LevelOf(p)  == Log2(LowBit(p + 1))                 \* 0 for a leaf
DimOf(p)    == (Log2(finish + 1) - 1 - LevelOf(p)) % kth
LeftOf(p)   == (p - LowBit(p + 1) + 1) .. (p - 1)
RightOf(p)  == (p + 1) .. (p + LowBit(p + 1) - 1)
Key(p, d)   == vals[p][d + 1]
AxisEqual(a, b) == \A d \in 0 .. (kth - 1) : a[d + 1] = b[d + 1]

\* The live values as a bag.
LiveBag ==
  [v \in { vals[p] : p \in Live } |-> Cardinality({ p \in Live : vals[p] = v })]

\* The height of the live part of a subtree: `range` is its slots, `top`
\* the level of its root, and the height counts the levels from the root
\* down to the lowest one that holds a live slot (0: no live slot).
RECURSIVE HeightFrom(_, _, _)
HeightFrom(range, top, l) ==
  IF l > top THEN 0
  ELSE IF \E q \in range : st[q] # Invalid /\ LevelOf(q) = l THEN top + 1 - l
  ELSE HeightFrom(range, top, l + 1)
HeightOf(range, top) == HeightFrom(range, top, 0)

\* The smallest m >= n of the form 2^k - 1.
RECURSIVE SmallestFull(_, _)
SmallestFull(n, m) == IF m >= n THEN m ELSE SmallestFull(n, 2 * m + 1)
FillTrailingZeros(n) == SmallestFull(n, 0)

MaxOf(a, b) == IF a >= b THEN a ELSE b
NoDuplicates == \A v \in BagToSet(inserted) : inserted[v] = 1

\* C1: the bag of the values in live slots of [0, span) is the bag of the
\* values inserted: no insert, expansion or rotation loses, duplicates or
\* alters a value.
C1_MultisetPreserved == LiveBag = inserted

\* C1 witness: twelve values are in, and the last insert took the maximum
\* out of a full seven-slot subtree (_erase_when_full at offset 2).
C1_Witness ==
  /\ BagCardinality(inserted) = 12
  /\ rot >= 4
  /\ \E v \in BagToSet(inserted) : inserted[v] >= 2

\* C2: for every live node with split dimension d, no live value of its
\* right subtree is strictly less than it on axis d and no live value of
\* its left subtree is strictly greater than it on axis d.
C2_KdOrdered ==
  \A p \in Live :
    LET d == DimOf(p)
        k == Key(p, d)
    IN  /\ \A q \in RightOf(p) : st[q] # Invalid => ~(Key(q, d) < k)
        /\ \A q \in LeftOf(p) : st[q] # Invalid => ~(Key(q, d) > k)

\* C2 witness: a two-axis tree of fifteen slots right after a rotation at
\* a node that splits on axis 1, with a tie on that node's axis below it.
C2_Witness ==
  /\ kth = 2
  /\ finish = 15
  /\ rot = 2
  /\ \E p \in Live : \E q \in (LeftOf(p) \cup RightOf(p)) \cap Live :
       DimOf(p) = 1 /\ Key(q, 1) = Key(p, 1)

\* C3: after inserts of pairwise distinct values, find(v) of every inserted
\* v returns an iterator other than end() to a live slot whose value is
\* equal to v on every axis.
C3_RoundTrip ==
  NoDuplicates =>
    \A v \in BagToSet(inserted) :
      LET f == find(Self, kth, v)
      IN  /\ f # finish
          /\ f \in Live
          /\ AxisEqual(vals[f], v)

\* C3 witness: six distinct two-axis values, two of them with the same
\* coordinate on axis 0, are in after a rotation, and all are found.
C3_Witness ==
  /\ kth = 2
  /\ NoDuplicates
  /\ BagCardinality(inserted) >= 6
  /\ rot >= 2
  /\ \E v, w \in BagToSet(inserted) : v # w /\ v[1] = w[1]
  /\ \A v \in BagToSet(inserted) : find(Self, kth, v) \in Live

\* C4: find(v) returns end() or a live slot whose value is equal to v on
\* every axis, and it returns end() when no live slot is equal to v on
\* every axis (also on a container never filled, or cleared).
C4_FindSound ==
  \A v \in Values(kth) :
    LET f == find(Self, kth, v)
    IN  /\ f = finish \/ (f \in Live /\ AxisEqual(vals[f], v))
        /\ (\A p \in Live : ~AxisEqual(vals[p], v)) => f = finish

\* C4 witness: a cleared and refilled two-axis container where one value is
\* found and another, equal to a live value on axis 0 only, is not.
C4_Witness ==
  /\ kth = 2
  /\ clears = 1
  /\ count >= 2
  /\ \E v, w \in Values(kth) :
       /\ find(Self, kth, v) \in Live
       /\ find(Self, kth, w) = finish
       /\ \E p \in Live : vals[p][1] = w[1]

\* C5: for every live node, the heights of its live left subtree and of
\* its live right subtree differ by at most one.
C5_Balanced ==
  \A p \in Live :
    LET hl == HeightOf(LeftOf(p), LevelOf(p) - 1)
        hr == HeightOf(RightOf(p), LevelOf(p) - 1)
    IN  hl - hr \in {-1, 0, 1}

\* C5 witness: a fifteen-slot tree right after a rotation in which the two
\* subtrees of the root have different heights.
C5_Witness ==
  /\ finish = 15
  /\ rot >= 2
  /\ HeightOf(LeftOf(7), 2) # HeightOf(RightOf(7), 2)

\* C6: after k inserts into an empty container, with or without a capacity
\* hint, size() is k, empty() is (k = 0), and exactly k slots of
\* [begin(), end()) are not Invalid.
C6_SizeIsInserts ==
  LET k == BagCardinality(inserted)
  IN  /\ size(Self) = k
      /\ empty(Self) = (k = 0)
      /\ Cardinality(Live) = k

\* C6 witness: a hinted container after nine inserts, in a buffer it had
\* to reallocate.
C6_Witness ==
  /\ hint = 4
  /\ clears = 0
  /\ BagCardinality(inserted) = 9
  /\ size(Self) = 9
  /\ capacity = 15

\* C7: with one axis and pairwise distinct keys, the live slots in array
\* order hold strictly increasing keys, and the last live key is the
\* largest key inserted.
C7_SortedIteration ==
  (kth = 1 /\ NoDuplicates) =>
    /\ \A p, q \in Live : p < q => Key(p, 0) < Key(q, 0)
    /\ \A p \in Live :
         (\A q \in Live : q <= p) =>
           \A v \in BagToSet(inserted) : v[1] <= Key(p, 0)

\* C7 witness: twelve distinct keys are in a fifteen-slot tree, the last
\* one through a rotation out of a full seven-slot subtree, and the first
\* key in array order is not in slot 0.
C7_Witness ==
  /\ kth = 1
  /\ NoDuplicates
  /\ BagCardinality(inserted) = 12
  /\ rot >= 4
  /\ 0 \notin Live

\* C8: a container constructed with hint n (0: the default constructor)
\* has capacity fill_trailing_zeros(n), the smallest 2^k - 1 >= n, size 0,
\* is empty, and begin() == end().
C8_ConstructedGeometry ==
  (inserted = EmptyBag /\ clears = 0) =>
    /\ capacity = FillTrailingZeros(hint)
    /\ size(Self) = 0
    /\ empty(Self)
    /\ begin(Self) = end(Self)

\* C8 witness: the container constructed with hint 4 has capacity 7.
C8_Witness ==
  /\ inserted = EmptyBag
  /\ clears = 0
  /\ hint = 4
  /\ capacity = 7

\* C9: with hint n and k >= 1 inserts and nothing else, capacity is
\* max(fill_trailing_zeros(n), fill_trailing_zeros(k)); the capacity
\* changes only in an insert that finds count == span == capacity, to
\* 2 * capacity + 1 (1 from capacity 0), and every other growth of the
\* live region keeps the capacity.
C9_CapacityPolicy ==
  /\ [](LET k == BagCardinality(inserted)
        IN  (clears = 0 /\ k >= 1) =>
              capacity = MaxOf(FillTrailingZeros(hint), FillTrailingZeros(k)))
  /\ [][ /\ capacity' # capacity =>
              /\ count = finish
              /\ finish = capacity
              /\ capacity' = IF capacity = 0 THEN 1 ELSE 2 * capacity + 1
         /\ (finish' > finish /\ ~(count = finish /\ finish = capacity)) =>
              capacity' = capacity
       ]_vars

\* C9 witness: a container constructed with hint 4 (capacity 7) holds
\* eight values in a buffer of 15 slots.
C9_Witness ==
  /\ hint = 4
  /\ clears = 0
  /\ BagCardinality(inserted) = 8
  /\ capacity = 15
  /\ finish = 15

\* C10: on a non-empty container, full or not, minimum from the root on
\* axis d returns a live slot with no live value smaller on axis d, and
\* maximum a live slot with no live value greater on axis d, for every d.
C10_ExtremaSound ==
  count >= 1 =>
    \A d \in 0 .. (kth - 1) :
      LET t  == BuffersOf(Self)
          lo == minimum(t, kth, d, 0, root_offset(finish), root(0, finish))
          hi == maximum(t, kth, d, 0, root_offset(finish), root(0, finish))
      IN  /\ lo \in Live
          /\ hi \in Live
          /\ \A p \in Live : ~(Key(p, d) < Key(lo, d))
          /\ \A p \in Live : ~(Key(p, d) > Key(hi, d))

\* C10 witness: a two-axis tree of fifteen slots with Invalid leaves whose
\* axis-1 minimum is right of the root, which splits on axis 0, and is
\* smaller on axis 1 than the root and than the axis-1 maximum.
C10_Witness ==
  /\ kth = 2
  /\ finish = 15
  /\ count < finish
  /\ LET t  == BuffersOf(Self)
         lo == minimum(t, kth, 1, 0, root_offset(finish), root(0, finish))
         hi == maximum(t, kth, 1, 0, root_offset(finish), root(0, finish))
     IN  /\ lo > root(0, finish)
         /\ Key(lo, 1) < Key(root(0, finish), 1)
         /\ Key(lo, 1) < Key(hi, 1)

\* C11: the iterator insert(v) returns is a slot of [begin(), end()) that
\* is live and holds a value equal to v on every axis.
C11_InsertReturnsSlot ==
  ret # NoRet =>
    /\ ret.it \in Slots
    /\ st[ret.it] # Invalid
    /\ AxisEqual(vals[ret.it], ret.v)

\* C11 witness: the insert rotated a value out of a full three-slot
\* subtree of a two-axis tree and returned a slot other than the root,
\* next to a slot holding a different value.
C11_Witness ==
  /\ kth = 2
  /\ ret # NoRet
  /\ rot >= 2
  /\ ret.it # root(0, finish)
  /\ \E p \in Live : vals[p] # ret.v

\* The same geometry for a container given as a record c.
SlotsOf(c)  == 0 .. (c.finish - 1)
LiveOf(c)   == { p \in SlotsOf(c) : c.st[p] # Invalid }
BagOf(c) ==
  [v \in { c.vals[p] : p \in LiveOf(c) } |->
     Cardinality({ p \in LiveOf(c) : c.vals[p] = v })]
DimIn(c, p) == (Log2(c.finish + 1) - 1 - LevelOf(p)) % kth

\* Size: count <= span, count is the number of live slots, and the live
\* values are the values put in.
SizeHolds(c, bag) ==
  /\ c.count <= c.finish
  /\ c.count = Cardinality(LiveOf(c))
  /\ BagOf(c) = bag

\* Ordering: the k-d ordering at every live node.
OrderHolds(c) ==
  \A p \in LiveOf(c) :
    LET d == DimIn(c, p)
        k == c.vals[p][d + 1]
    IN  /\ \A q \in RightOf(p) : c.st[q] # Invalid => ~(c.vals[q][d + 1] < k)
        /\ \A q \in LeftOf(p) : c.st[q] # Invalid => ~(c.vals[q][d + 1] > k)

\* Fullness: a slot whose state is full_state roots a subtree with no
\* Invalid slot.
FullnessHolds(c) ==
  \A p \in SlotsOf(c) :
    c.st[p] = c.full_state =>
      \A q \in LeftOf(p) \cup RightOf(p) : c.st[q] # Invalid

\* What a caller can observe of a container: capacity(), size(), the
\* span, full_state, the state of every slot of the span and the value of
\* every live one.
View(c) ==
  [capacity |-> c.capacity, size |-> c.count, span |-> c.finish,
   full_state |-> c.full_state,
   st |-> [p \in SlotsOf(c) |-> c.st[p]],
   live |-> [p \in LiveOf(c) |-> c.vals[p]]]

\* C12: the copy has the capacity, size, span, full_state, slot states and
\* live values of its source and buffers of its own; afterwards no insert
\* or clear on one of the two changes what is observed of the other, and
\* both keep the size, ordering and fullness invariants.
C12_CopyIndependent ==
  /\ []((other.made = "copy" /\ Usable) =>
          /\ ~other.shares
          /\ SizeHolds(Self, inserted) /\ SizeHolds(other, other.inserted)
          /\ OrderHolds(Self) /\ OrderHolds(other)
          /\ FullnessHolds(Self) /\ FullnessHolds(other))
  /\ [][(other.made = "no" /\ other'.made = "copy") =>
          /\ View(other') = View(Self)
          /\ View(Self)' = View(Self)]_vars
  /\ [][(other.made = "copy" /\ Usable') =>
          \/ (View(Self)' = View(Self) /\ inserted' = inserted)
          \/ (View(other') = View(other)
                /\ other'.inserted = other.inserted)]_vars

\* C12 witness: a copy of a full three-slot two-axis tree got a fourth
\* value in larger buffers of its own, and the source was then cleared.
C12_Witness ==
  /\ kth = 2
  /\ other.made = "copy"
  /\ other.ops = 2
  /\ other.capacity = 7
  /\ other.count = 4
  /\ capacity = 3
  /\ count = 0

\* C13: after move construction the source has capacity 0, size 0 and
\* begin() == end(), and the destination has the capacity, size, span,
\* full_state and slot contents the source had.
C13_MoveEmpties ==
  [][(other.made = "no" /\ other'.made = "move") =>
       /\ capacity' = 0
       /\ size(Self)' = 0
       /\ begin(Self)' = end(Self)'
       /\ other'.capacity = capacity
       /\ other'.count = count
       /\ other'.finish = finish
       /\ other'.full_state = full_state
       /\ other'.vals = vals
       /\ other'.st = st]_vars

\* C13 witness: a seven-slot container with four values and full_state
\* Tails has been moved from.
C13_Witness ==
  /\ other.made = "move"
  /\ other.ops = 0
  /\ other.capacity = 7
  /\ other.count = 4
  /\ other.full_state = Tails
  /\ capacity = 0
  /\ full_state = Heads

C15_FailedPlacement ==
  exc.kind = "value" =>
    /\ count = exc.count
    /\ st[exc.target] = Invalid

UnsignedLeq(a, b) == IF a < 0 THEN (b < 0 /\ a <= b) ELSE (b < 0 \/ a <= b)

\* C17: in every state reached with construction, insert, clear and
\* erase, count <= span and count is the number of slots of [0, span)
\* that are not Invalid.
C17_CountIsLive ==
  /\ UnsignedLeq(count, finish)
  /\ count = Cardinality(Live)

\* C18: a container constructed from an initializer list of n values has
\* size n, capacity fill_trailing_zeros(n), and find(v) returns a live
\* slot for every listed v.
C18_ListInserted ==
  (inserted = EmptyBag /\ clears = 0) =>
    /\ size(Self) = Len(listed)
    /\ capacity = FillTrailingZeros(Len(listed))
    /\ \A i \in 1 .. Len(listed) : find(Self, kth, listed[i]) \in Live

\* The order of two words given as bit sets: a >= b.
WordGeq(a, b) ==
  \/ a = b
  \/ \E x \in a \ b : \A y \in b \ a : y < x

\* 2^k - 1
FullWord(k) == 0 .. k - 1

\* C19: for a word u > 0 of 16, 32 or 64 bits ftz(u) is the smallest value
\* 2^k - 1 that is >= u, so ftz(1) = 1, ftz(8) = 15 and
\* ftz(2^(w-1)) = 2^w - 1; ftz(0) = 0; and ftz(ftz(u)) = ftz(u).
C19_FtzSmallestFull ==
  /\ [](word.w \in Widths /\ word.n = 1 =>
         /\ word.u0 # {} =>
               \E k \in 1 .. word.w :
                  /\ word.u = FullWord(k)
                  /\ WordGeq(word.u, word.u0)
                  /\ \A j \in 0 .. k - 1 : ~WordGeq(FullWord(j), word.u0)
         /\ word.u0 = {} => word.u = {}
         /\ word.u0 = {0} => word.u = {0}
         /\ word.u0 = {3} => word.u = 0 .. 3
         /\ word.u0 = {word.w - 1} => word.u = 0 .. word.w - 1)
  /\ [][word.w \in Widths /\ word.n >= 1 => word'.u = word.u]_vars

C19_Witness ==
  /\ word.w = 64
  /\ word.n = 2
  /\ word.u0 = {63}
  /\ word.u = 0 .. 63

\* The geometry of one container: the capacity is 0 or 2^h - 1, the span
\* is 0 or 2^k - 1 with 1 <= k <= h, and the span is within the capacity.
ShapeHolds(c) ==
  /\ \/ c.capacity = 0
     \/ \E h \in 1 .. c.capacity :
          /\ c.capacity = 2^h - 1
          /\ \/ c.finish = 0
             \/ \E k \in 1 .. h : c.finish = 2^k - 1
  /\ c.finish >= 0
  /\ c.finish <= c.capacity

\* C20: in every state reached by construction with a hint, insert, clear,
\* copy and move, the capacity of a container is 0 or 2^h - 1 (h >= 1),
\* its span is 0 or 2^k - 1 with 1 <= k <= h, and span <= capacity.
C20_ShapeOfCapacityAndSpan ==
  /\ ShapeHolds(Self)
  /\ other.made # "no" => ShapeHolds(other)

\* C20 witness: four values took the container to 7 slots, it was copied,
\* cleared, and given one value again: span 1 in capacity 7, next to the
\* copy with span 7.
C20_Witness ==
  /\ other.made = "copy"
  /\ other.capacity = 7
  /\ other.finish = 7
  /\ clears = 1
  /\ capacity = 7
  /\ finish = 1
  /\ count = 1

\* The slots of the subtree a slot roots.
SubtreeOf(p) == LeftOf(p) \cup {p} \cup RightOf(p)

\* C21: between operations, a live slot is marked full_state exactly when
\* every slot of its subtree is live, and then every slot of the subtree
\* is marked full_state too; so a live slot marked Unsure, or with the
\* stale opposite parity, has an Invalid slot below it.
C21_FullMarkIsExact ==
  \A p \in Live :
    /\ st[p] = full_state <=> \A q \in SubtreeOf(p) : st[q] # Invalid
    /\ st[p] = full_state => \A q \in SubtreeOf(p) : st[q] = full_state
    /\ st[p] # full_state => \E q \in SubtreeOf(p) \ {p} : st[q] = Invalid

\* C21 witness: in a span of 15 after a rotation, one inner slot is marked
\* Unsure, one carries the stale parity and one inner slot is full.
C21_Witness ==
  /\ finish = 15
  /\ rot >= 2
  /\ \E p \in Live : LevelOf(p) >= 1 /\ st[p] = Unsure
  /\ \E p \in Live : LevelOf(p) >= 1 /\ st[p] = Complement(full_state)
  /\ \E p \in Live : LevelOf(p) >= 1 /\ st[p] = full_state

\* The root of the live region and its two children.
RootSlot  == finish \div 2
RootLeft  == RootSlot - ((finish + 1) \div 4)
RootRight == RootSlot + ((finish + 1) \div 4)
RootMerge ==
  IF st[RootLeft] = st[RootRight] THEN st[RootLeft] ELSE Unsure

\* C22 as stated: whenever an insert has left a span of 3 or more, the
\* state of the root is the merge of the states of its two children.
C22_RootIsMerge == finish >= 3 => st[RootSlot] = RootMerge

\* C22: whenever an insert has left a span of 7 or more, the state of the
\* root is the merge of the states of its two children; in a span of 3
\* the root is marked full_state when both leaves are live and keeps the
\* stale parity, the complement of full_state, while one of them is
\* Invalid.
C22_RootSummarises ==
  /\ finish >= 7 => st[RootSlot] = RootMerge
  /\ finish = 3 =>
       st[RootSlot] = IF st[RootLeft] # Invalid /\ st[RootRight] # Invalid
                      THEN full_state ELSE Complement(full_state)

\* C22 witness: a span of 3 holds two values, so the root carries the
\* stale parity while its children merge to Unsure.
C22_Witness ==
  /\ finish = 3
  /\ count = 2
  /\ st[RootSlot] = Complement(full_state)
  /\ RootMerge = Unsure

\* The other parity.
Flip(s) == IF s = Heads THEN Tails ELSE Heads

\* The slots of the span of c that compare equal to its full_state.
MarkedFull(c) == { q \in 0 .. (c.finish - 1) : c.st[q] = c.full_state }

\* C23: full_state is Heads or Tails; an insert that finds count == span
\* >= 1 toggles it and no other insert and no clear changes it; right
\* after the expansion of such an insert no slot of the new span compares
\* equal to full_state, and when the insert returns every previously live
\* slot i sits at 2i + 1 with the complement of the new full_state, the
\* one slot marked full_state being the leaf that took the new value;
\* two expansions give full_state its value back, so without a clear its
\* value follows the parity of the number of levels.
C23_FullStateToggles ==
  /\ [](full_state \in {Heads, Tails})
  /\ []((clears = 0 /\ finish >= 1) =>
          full_state = IF Log2(finish + 1) % 2 = 1 THEN Heads ELSE Tails)
  /\ [][ IF clears' = clears /\ count = finish /\ finish >= 1
         THEN /\ full_state' = Flip(full_state)
              /\ Flip(full_state') = full_state
              /\ finish' = (2 * finish) + 1
              /\ MarkedFull(_prepare_insert(Self)) = {}
              /\ \A i \in 0 .. (finish - 1) :
                    /\ st'[(2 * i) + 1] = Flip(full_state')
                    /\ vals'[(2 * i) + 1] = vals[i]
              /\ \E q \in 0 .. (finish' - 1) :
                    /\ q % 2 = 0
                    /\ MarkedFull(Self') = {q}
         ELSE full_state' = full_state
       ]_vars

\* C23 witness: the second expansion has just taken a default-constructed
\* container from span 3 to span 7, and full_state is Heads again; only
\* the leaf of the fourth value is marked Heads.
C23_Witness ==
  /\ hint = 0
  /\ clears = 0
  /\ finish = 7
  /\ count = 4
  /\ full_state = Heads
  /\ Cardinality(MarkedFull(Self)) = 1

\* The container as _expand leaves it when _prepare_insert calls it: into
\* new buffers when count == capacity, in place otherwise.
Expanded ==
  IF count = capacity THEN _expand_alloc(Self)
  ELSE _expand(Self, [vals |-> vals, st |-> st, thrown |-> FALSE], TRUE)

\* C24: where _prepare_insert expands (count == span = s >= 1), _expand,
\* in place or into new buffers, leaves the value and the state of every
\* old slot i at 2i + 1, every even slot of [0, 2s + 1) Invalid and a span
\* of 2s + 1, so the right-to-left walk in place loses no old slot; and
\* when the insert returns the old values are at the odd slots, in place
\* exactly when the capacity had room.
C24_ExpandMoves ==
  /\ []((count = finish /\ finish >= 1) =>
          /\ Expanded.finish = (2 * finish) + 1
          /\ \A i \in 0 .. (finish - 1) :
                /\ Expanded.vals[(2 * i) + 1] = vals[i]
                /\ Expanded.st[(2 * i) + 1] = st[i]
          /\ \A i \in 0 .. finish : Expanded.st[2 * i] = Invalid)
  /\ [][(clears' = clears /\ count = finish /\ finish >= 1) =>
          /\ finish' = (2 * finish) + 1
          /\ capacity' = IF count = capacity THEN (2 * capacity) + 1
                         ELSE capacity
          /\ \A i \in 0 .. (finish - 1) : vals'[(2 * i) + 1] = vals[i]
          /\ Cardinality({ i \in 0 .. finish : st'[2 * i] # Invalid }) = 1
       ]_vars

\* C24 witness: a container constructed with room for seven values has
\* just been expanded in place from a span of 3 to a span of 7.
C24_Witness ==
  /\ hint = 4
  /\ clears = 0
  /\ capacity = 7
  /\ finish = 7
  /\ count = 4
  /\ \A i \in 0 .. 2 : st[(2 * i) + 1] = Flip(full_state)

\* The equal-on-node_dim branches the last insert took.
TiesTaken == IF ret = NoRet THEN {} ELSE ret.ties

\* C25 as stated: an insert that finds its value equal to a node on
\* node_dim goes into the child subtree that is not full, and into the
\* right one when neither is full.
C25_EqualPrefersRight ==
  \A e \in TiesTaken :
    /\ e.lfull => e.right
    /\ e.rfull => ~e.right
    /\ (~e.lfull /\ ~e.rfull) => e.right

\* C25: an insert that finds its value equal to a node on node_dim at
\* offset > 1 goes into the right subtree when the left one is full and
\* into the left subtree otherwise: into the side that is not full when
\* one side is full, and into the left one when neither is full.  Both
\* sides are never full there, and the caller's value ends in the
\* subtree it went into.
C25_EqualPrefersLeft ==
  \A e \in TiesTaken :
    /\ e.offset > 1
    /\ ~(e.lfull /\ e.rfull)
    /\ e.lfull => e.right
    /\ e.rfull => ~e.right
    /\ (~e.lfull /\ ~e.rfull) => ~e.right
    /\ e.own => IF e.right THEN ret.it \in RightOf(e.node)
                          ELSE ret.it \in LeftOf(e.node)

\* C25 witness: the last insert met an equal key at two nodes; at one of
\* them neither side was full and it went left, at another the left side
\* was full and it went right.
C25_Witness ==
  /\ \E e \in TiesTaken : ~e.lfull /\ ~e.rfull /\ ~e.right
  /\ \E e \in TiesTaken : e.lfull /\ e.right

\* The slots minimum compares, in the order it comes to them, from a
\* node that splits on nd with offset off: the node, what the left subtree
\* gives, and, unless the node splits on the searched axis fd, the right
\* child and what is below it; the two leaves of a node of offset 1 when
\* they are live.  maximum goes to the right subtree first.
RECURSIVE VisitMin(_, _, _, _)
VisitMin(fd, nd, off, node) ==
  <<node>> \o
  (IF off > 1
   THEN VisitMin(fd, (nd + 1) % kth, off \div 2, node - off) \o
        (IF nd = fd THEN << >>
         ELSE VisitMin(fd, (nd + 1) % kth, off \div 2, node + off))
   ELSE IF off = 1
   THEN (IF st[node - 1] # Invalid THEN <<node - 1>> ELSE << >>) \o
        (IF st[node + 1] # Invalid THEN <<node + 1>> ELSE << >>)
   ELSE << >>)

RECURSIVE VisitMax(_, _, _, _)
VisitMax(fd, nd, off, node) ==
  <<node>> \o
  (IF off > 1
   THEN VisitMax(fd, (nd + 1) % kth, off \div 2, node + off) \o
        (IF nd = fd THEN << >>
         ELSE VisitMax(fd, (nd + 1) % kth, off \div 2, node - off))
   ELSE IF off = 1
   THEN (IF st[node - 1] # Invalid THEN <<node - 1>> ELSE << >>) \o
        (IF st[node + 1] # Invalid THEN <<node + 1>> ELSE << >>)
   ELSE << >>)

\* The places in a visiting order of the slots that tie for the smallest,
\* or the largest, key on axis d.
TiedLow(seq, d) ==
  { i \in DOMAIN seq : \A j \in DOMAIN seq : ~(Key(seq[j], d) < Key(seq[i], d)) }
TiedHigh(seq, d) ==
  { i \in DOMAIN seq : \A j \in DOMAIN seq : ~(Key(seq[j], d) > Key(seq[i], d)) }
FirstOf(seq, I) == seq[CHOOSE i \in I : \A j \in I : i <= j]
LastOf(seq, I)  == seq[CHOOSE i \in I : \A j \in I : i >= j]

OffsetOf(p) == LowBit(p + 1) \div 2
MinFrom(p, d) == minimum(BuffersOf(Self), kth, d, DimOf(p), OffsetOf(p), p)
MaxFrom(p, d) == maximum(BuffersOf(Self), kth, d, DimOf(p), OffsetOf(p), p)

\* C26 as stated: among the slots that tie for the smallest key on the
\* searched axis, minimum returns the one it came to first, and maximum
\* likewise for the largest key.
C26_FirstTieWins ==
  \A p \in Live : \A d \in 0 .. (kth - 1) :
    /\ MinFrom(p, d) =
         FirstOf(VisitMin(d, DimOf(p), OffsetOf(p), p),
                 TiedLow(VisitMin(d, DimOf(p), OffsetOf(p), p), d))
    /\ MaxFrom(p, d) =
         FirstOf(VisitMax(d, DimOf(p), OffsetOf(p), p),
                 TiedHigh(VisitMax(d, DimOf(p), OffsetOf(p), p), d))

\* C26: among the slots that tie for the smallest key on the searched
\* axis, minimum returns the one it came to last: a later slot with an
\* equal key always replaces the current best.  maximum likewise for the
\* largest key.
C26_LastTieWins ==
  \A p \in Live : \A d \in 0 .. (kth - 1) :
    /\ MinFrom(p, d) =
         LastOf(VisitMin(d, DimOf(p), OffsetOf(p), p),
                TiedLow(VisitMin(d, DimOf(p), OffsetOf(p), p), d))
    /\ MaxFrom(p, d) =
         LastOf(VisitMax(d, DimOf(p), OffsetOf(p), p),
                TiedHigh(VisitMax(d, DimOf(p), OffsetOf(p), p), d))

\* C26 witness: in a two-axis tree of fifteen slots three or more slots
\* tie for the smallest key on axis 1 from the root, and minimum returns
\* neither the root nor the first of them.
C26_Witness ==
  /\ kth = 2
  /\ finish = 15
  /\ LET r   == root(0, finish)
         seq == VisitMin(1, 0, OffsetOf(r), r)
     IN  /\ Cardinality(TiedLow(seq, 1)) >= 3
         /\ MinFrom(r, 1) # r
         /\ MinFrom(r, 1) # FirstOf(seq, TiedLow(seq, 1))

\* C27: for a span 2^k - 1 the descent from root(0, span) = span / 2 with
\* root_offset(span) = (span + 1) / 4, by left(p, o) = p - o and
\* right(p, o) = p + o with the offset halved at each level, reaches every
\* index of [0, span) exactly once and no other index; every slot below a
\* node on its left has a smaller index than the node and every slot
\* below it on its right a larger one.
C27_DescentCoversSpan ==
  walk # NoWalk =>
    LET span == walk.span
        all  == Descent(root(0, span), root_offset(span))
    IN  /\ root(0, span) = span \div 2
        /\ root_offset(span) = (span + 1) \div 4
        /\ Len(all) = span
        /\ { all[i] : i \in DOMAIN all } = 0 .. (span - 1)
        /\ walk.node \in 0 .. (span - 1)
        /\ \E i \in DOMAIN all : all[i] = walk.node
        /\ \A i \in DOMAIN walk.above :
              IF walk.above[i].went = "left"
              THEN walk.node < walk.above[i].node
              ELSE walk.node > walk.above[i].node

\* C27 witness: in the span of 63 the descent went left, right, right,
\* left and left again, down to the leaf at index 24.
C27_Witness ==
  /\ walk # NoWalk
  /\ walk.span = 63
  /\ walk.offset = 0
  /\ Len(walk.above) = 5
  /\ walk.above[1].went = "left"
  /\ walk.above[2].went = "right"
  /\ walk.above[3].went = "right"
  /\ walk.above[4].went = "left"
  /\ walk.above[5].went = "left"
  /\ walk.node = 24

\* The buffers after _erase_when_full on the subtree of slot p with the
\* target q.
ErasedFrom(p, q) ==
  _erase_when_full(BuffersOf(Self), kth, DimOf(p), OffsetOf(p), p, q)

\* The live values of the slots S of buffers t, as a bag.
LiveBagIn(t, S) ==
  LET L == { i \in S : t.st[i] # Invalid }
  IN  [x \in { t.vals[i] : i \in L } |->
         Cardinality({ i \in L : t.vals[i] = x })]

\* C28: _erase_when_full on a subtree whose root is marked full_state,
\* for a target inside it, leaves the live values of the subtree less the
\* target's, exactly one Invalid slot in the subtree, on the leaf layer,
\* every node from the root of the subtree down to that slot's parent
\* marked Unsure, every other slot with the state it had, and the k-d
\* ordering inside the subtree.
C28_EraseWhenFull ==
  \A p \in Live : st[p] = full_state =>
    \A q \in SubtreeOf(p) :
      LET S    == SubtreeOf(p)
          t    == ErasedFrom(p, q)
          gone == { z \in S : t.st[z] = Invalid }
          path == { a \in S : \E z \in gone : a # z /\ z \in SubtreeOf(a) }
      IN  /\ LiveBagIn(t, S) (+) SetToBag({vals[q]}) = LiveBagIn(BuffersOf(Self), S)
          /\ Cardinality(gone) = 1
          /\ \A z \in gone : LevelOf(z) = 0
          /\ \A a \in path : t.st[a] = Unsure
          /\ \A i \in Slots \ (gone \cup path) :
                t.st[i] = st[i]
          /\ \A i \in Slots \ S : t.vals[i] = vals[i]
          /\ \A a \in S \ gone :
                LET d == DimOf(a)
                IN  /\ \A b \in RightOf(a) \ gone :
                         ~(t.vals[b][d + 1] < t.vals[a][d + 1])
                    /\ \A b \in LeftOf(a) \ gone :
                         ~(t.vals[b][d + 1] > t.vals[a][d + 1])

\* C28 witness: the last insert took a value out of a full subtree of
\* seven slots with _erase_when_full, and the two-axis tree of fifteen
\* slots has a full subtree of seven slots with different keys on both
\* axes.
C28_Witness ==
  /\ kth = 2
  /\ finish = 15
  /\ rot >= 4
  /\ \E p \in Live :
       /\ OffsetOf(p) = 2
       /\ st[p] = full_state
       /\ Cardinality({ vals[q][1] : q \in SubtreeOf(p) }) >= 2
       /\ Cardinality({ vals[q][2] : q \in SubtreeOf(p) }) >= 2

\* C29: copy construction reads, to copy-construct from, only the values
\* of the slots of the source that are live; the value of an Invalid slot
\* of [0, span) of the source is never read.
C29_CopyReadsLiveOnly ==
  [][(other.made = "no" /\ other'.made = "copy") =>
       other'.read \subseteq Live]_vars

\* A container with the value of every slot of the span that holds no
\* live value (an Invalid slot, or the slot a first insert is about to
\* fill) replaced by the value whose keys are all k: what a read of such
\* a slot would find is then up to k.
Filled(c, k) ==
  [c EXCEPT !.vals =
     [i \in DOMAIN c.vals |->
        IF i < c.finish /\ c.vals[i] = NoValue
        THEN [a \in 1 .. kth |-> k] ELSE c.vals[i]]]

\* What an insert into the prepared container c gives: the returned
\* iterator, the states of the span and the values of the live slots.
InsertInto(c, v) ==
  LET r == _single_insert(BuffersOf(c), kth, c.full_state, 0,
                          root_offset(c.finish), root(0, c.finish),
                          DeferCopy(v))
  IN  [it   |-> r.insert,
       st   |-> [i \in 0 .. (c.finish - 1) |-> r.st[i]],
       live |-> [i \in { j \in 0 .. (c.finish - 1) : r.st[j] # Invalid } |->
                  r.vals[i]]]

\* minimum and maximum from the root of c on axis d
ExtremaOf(c, d) ==
  << minimum(BuffersOf(c), kth, d, 0, root_offset(c.finish),
             root(0, c.finish)),
     maximum(BuffersOf(c), kth, d, 0, root_offset(c.finish),
             root(0, c.finish)) >>

\* C30: insert, find, minimum and maximum from the root never read the
\* value of an Invalid slot: in a span of 3 or more every slot of odd
\* index is live, so only leaves can be Invalid, and whatever values the
\* Invalid slots hold, 0 or MaxKey + 1 on every axis, each of the four
\* operations returns the same slot and insert leaves the same states
\* and live values.
C30_InvalidNeverRead ==
  /\ finish >= 3 => \A i \in Slots : i % 2 = 1 => st[i] # Invalid
  /\ \A v \in Values(kth) :
       InsertInto(Filled(_prepare_insert(Self), 0), v) =
       InsertInto(Filled(_prepare_insert(Self), MaxKey + 1), v)
  /\ count >= 1 =>
       /\ \A v \in Values(kth) :
             find(Filled(Self, 0), kth, v) = find(Filled(Self, MaxKey + 1), kth, v)
       /\ \A d \in 0 .. (kth - 1) :
             ExtremaOf(Filled(Self, 0), d) = ExtremaOf(Filled(Self, MaxKey + 1), d)

\* C30 witness: a span of 15 of a two-axis index with four or more
\* Invalid leaves, after an insert that rotated a value out of a full
\* subtree.
C30_Witness ==
  /\ kth = 2
  /\ finish = 15
  /\ rot >= 2
  /\ Cardinality({ i \in Slots : st[i] = Invalid }) >= 4

SpanStep ==
  /\ (count' = count + 1) =>
       (finish' = IF count = finish THEN (2 * finish) + 1 ELSE finish)
  /\ (finish' # finish) =>
       \/ count' = count + 1 /\ count = finish
       \/ count' = 0 /\ finish' = 0
C32_SpanIsMinimal ==
  /\ [](end(Self) - begin(Self) = FillTrailingZeros(size(Self)))
  /\ [][SpanStep]_vars

\* C32 witness: a container that grew to a capacity of 15, was cleared
\* and has grown again, in place, to a span of 3 with two values.
C32_Witness ==
  /\ clears = 1
  /\ capacity = 15
  /\ finish = 3
  /\ count = 2

\* A state byte with Heads and Tails exchanged.
Swapped(s) == IF s = Heads THEN Tails ELSE IF s = Tails THEN Heads ELSE s

\* The container and f agree on what is observed: capacity, size, span,
\* which slots are live and their values, the state bytes up to the
\* parity of full_state, and what find returns for every value.
Alike(f) ==
  /\ capacity = f.capacity
  /\ size(Self) = size(f)
  /\ end(Self) = end(f)
  /\ \A p \in Slots :
       /\ st[p] = IF full_state = f.full_state THEN f.st[p]
                  ELSE Swapped(f.st[p])
       /\ st[p] # Invalid => vals[p] = f.vals[p]
  /\ (full_state = Heads) \/ (full_state = Tails)
  /\ \A v \in Values(kth) : find(Self, kth, v) = find(f, kth, v)

\* C33: after a clear in any state, with either full_state and the old
\* state bytes left in both buffers, k inserts give what they give on a
\* container constructed with the same capacity: size() = k, the live
\* slots hold the k values, end() - begin() = fill_trailing_zeros(k),
\* find returns a live slot with the value for each of them and end() for
\* every value stored only before the clear, and each insert returned
\* the iterator it returned on the twin.
C33_ClearedIsFresh ==
  other.made = "fresh" =>
    /\ size(Self) = BagCardinality(inserted)
    /\ LiveBag = inserted
    /\ end(Self) - begin(Self) = FillTrailingZeros(BagCardinality(inserted))
    /\ \A v \in BagToSet(inserted) :
         /\ find(Self, kth, v) \in Live
         /\ AxisEqual(vals[find(Self, kth, v)], v)
    /\ \A v \in other.before \ BagToSet(inserted) :
         find(Self, kth, v) = end(Self)
    /\ Alike(TwinOf(other))
    /\ ret # NoRet => ret.it = ret.twin

\* C33 witness: a container cleared at a capacity of 15 with Tails for
\* full_state, then given six values in a span of 7 with a rotation,
\* while its twin has the other parity and a value stored before the
\* clear has not come back.
C33_Witness ==
  /\ other.made = "fresh"
  /\ capacity = 15
  /\ finish = 7
  /\ count = 6
  /\ rot >= 2
  /\ full_state # other.full_state
  /\ \E p \in 7 .. 14 : st[p] \in {Invalid, Heads, Tails, Unsure}
  /\ other.before \ BagToSet(inserted) # {}

====
